---- MODULE Spec2Model ----
(***************************************************************************)
(* The download job orchestrator of backend/server.py: the VideoDownloader *)
(* (job table active_downloads, asyncio.Semaphore gate, yt-dlp invocation  *)
(* on the event loop's default thread pool under asyncio.wait_for) and the *)
(* HTTP handlers that submit and query jobs.                               *)
(*                                                                         *)
(* Python dicts are functions whose DOMAIN is the set of keys present;     *)
(* dict.update is Update.  time.time() values are abstracted to the token  *)
(* Now: only the presence of a timestamp is modelled.  The wall-clock      *)
(* timeout is an action that may fire whenever the awaited worker has not  *)
(* yet delivered its result.                                               *)
(***************************************************************************)
EXTENDS Integers, FiniteSets, Sequences, TLC

\* ---------------------------------------------------------------- bounds
\* Number of POST /download requests accepted in one behaviour.
MaxJobs == 2

\* asyncio.Semaphore(5) of VideoDownloader.__init__.  The gate properties are
\* stated for any capacity N; they are checked for a capacity that MaxJobs
\* submissions exceed.
GateCapacity == 1

Jobs == 1..MaxJobs

\* ------------------------------------------------------------- constants
max_file_size == 500 * 1024 * 1024

\* The default executor of the event loop (run_in_executor(None, ...)) is a
\* ThreadPoolExecutor of min(32, cpu_count + 4) workers: at least the gate
\* capacity (one CPU), more on any larger host.
PoolSizes == {GateCapacity, GateCapacity + 1}

Now == "time.time()"

None == "None"

\* ------------------------------------------------------------ dict helpers
Update(d, u) ==
    [k \in (DOMAIN d) \cup (DOMAIN u) |-> IF k \in DOMAIN u THEN u[k] ELSE d[k]]

Get(d, k, default) == IF k \in DOMAIN d THEN d[k] ELSE default

EmptyDict == [k \in {} |-> None]

\* --------------------------------------------------------------- requests
\* A URL is the sequence of its pieces; `s in url` of the code is Contains.
YouTubeUrl == <<"https://www.", "youtube.com", "/watch?v=dQw4w9WgXcQ">>

Contains(url, s) == \E i \in DOMAIN url : url[i] = s

VideoRequest(u, f, q, a, w) ==
    [url |-> u, format |-> f, quality |-> q, audio_only |-> a, remove_watermark |-> w]

\* The request slot of a job not yet submitted.
NoRequest == VideoRequest(<<>>, "", "", FALSE, FALSE)

\* One URL for each domain the request validator accepts.
PlatformUrls ==
    { YouTubeUrl,
      <<"https://", "youtu.be", "/dQw4w9WgXcQ">>,
      <<"https://www.", "tiktok.com", "/@u/video/1">>,
      <<"https://www.", "instagram.com", "/reel/1">>,
      <<"https://www.", "facebook.com", "/watch?v=1">>,
      <<"https://", "twitter.com", "/u/status/1">>,
      <<"https://", "x.com", "/u/status/1">> }

\* The quality tiers of the table and one that is not in it.
Qualities == {"best", "worst", "720p", "480p", "1080p", "4k"}

\* The requests of the option-building specification.
FormatRequests ==
    { VideoRequest(u, "mp4", q, a, w) :
        u \in PlatformUrls, q \in Qualities, a \in BOOLEAN, w \in BOOLEAN }

\* The requests submitted in the orchestration specification.
Requests == { VideoRequest(YouTubeUrl, "mp4", "720p", FALSE, TRUE) }

\* ------------------------------------------------------------- extractor
\* info['filesize'] of the preflight extract_info(download=False): the key
\* absent, the value None, or a number of bytes.
FilesizeAbsent == [present |-> FALSE, none |-> FALSE, bytes |-> 0]
FilesizeNone == [present |-> TRUE, none |-> TRUE, bytes |-> 0]
Filesize(n) == [present |-> TRUE, none |-> FALSE, bytes |-> n]

PreflightSizes ==
    {FilesizeAbsent, FilesizeNone, Filesize(0), Filesize(max_file_size),
     Filesize(max_file_size + 1)}

\* The info dict returned by extract_info(download=True).
Infos == { [title |-> "Clip", uploader |-> "u"] }

\* Files the download leaves under downloads/{download_id}.{ext}: ext -> bytes.
DiskSizes == {max_file_size, max_file_size + 1}
DiskExts == { {}, {"mp4"} }

\* Only the {id}.info.json that writeinfojson leaves, no media file.
InfoJsonOnly == [json |-> max_file_size]

DiskStates == UNION { [E -> DiskSizes] : E \in DiskExts } \cup {InfoJsonOnly}

ExtractorError == "ERROR: unable to download video data"
SizeError == "File size (500.00MB) exceeds maximum allowed size (500MB)"

\* The 'downloading' / 'finished' dicts yt-dlp hands to the progress hook.
ProgressEvents ==
    { [status |-> "downloading", _percent_str |-> " 50.0%", _speed_str |-> "1MiB/s",
       _eta_str |-> "00:10", downloaded_bytes |-> 1, total_bytes |-> 2],
      [status |-> "finished"] }

VARIABLES
    active_downloads,   \* downloader.active_downloads: download_id -> dict
    semaphore,          \* downloader.semaphore._value
    task,               \* per job: position of the background task download_video
    request,            \* per job: the VideoRequest handed to the background task
    thread,             \* per job: position of download_sync on the worker pool
    outcome,            \* per job: what download_sync returned or raised
    preflight,          \* per job: download_sync's info['filesize'] awaiting the size test
    download_calls,     \* per job: number of extract_info(download=True) calls
    disk,               \* per job: files downloads/{id}.{ext} -> size
    max_workers,        \* size of the loop's default ThreadPoolExecutor
    options,            \* per job: the yt-dlp options handed to YoutubeDL
    response            \* the last HTTP response sent

vars == <<active_downloads, semaphore, task, request, thread, outcome, preflight,
          download_calls, disk, max_workers, options, response>>

\* An HTTP exchange: the endpoint and download id asked for, the status code
\* and body answered.  NoResponse: the step taken answered no request.
Respond(endpoint, download_id, code, body) ==
    [endpoint |-> endpoint, download_id |-> download_id, status_code |-> code, body |-> body]

NoResponse == Respond("", 0, 0, EmptyDict)

\* What the awaited future of download_sync holds: nothing yet, the exception
\* raised (its str), or the info dict returned.
NoOutcome == [exc |-> "", info |-> EmptyDict]
Raised(msg) == [exc |-> msg, info |-> EmptyDict]
Returned(info) == [exc |-> "", info |-> info]

\* ------------------------------------------------------ VideoDownloader
_detect_platform(url) ==
    IF Contains(url, "tiktok.com") THEN "tiktok"
    ELSE IF Contains(url, "instagram.com") THEN "instagram"
    ELSE IF Contains(url, "youtube.com") \/ Contains(url, "youtu.be") THEN "youtube"
    ELSE IF Contains(url, "facebook.com") THEN "facebook"
    ELSE IF Contains(url, "twitter.com") \/ Contains(url, "x.com") THEN "twitter"
    ELSE "unknown"

quality_map ==
    [ best    |-> "bestvideo+bestaudio/best",
      worst   |-> "worst",
      720p    |-> "bestvideo[height<=720]+bestaudio/best[height<=720]",
      480p    |-> "bestvideo[height<=480]+bestaudio/best[height<=480]",
      1080p   |-> "bestvideo[height<=1080]+bestaudio/best[height<=1080]" ]

_get_format_string(req, platform) ==
    IF req.audio_only THEN "bestaudio/best"
    ELSE IF platform = "tiktok" /\ req.remove_watermark THEN "best[ext=mp4]"
    ELSE Get(quality_map, req.quality, "bestvideo+bestaudio/best")

_get_tiktok_options(req) ==
    LET opts ==
          [ http_headers |->
              ( "User-Agent" :> "Mozilla/5.0 (iPhone; CPU iPhone OS 14_6 like Mac OS X) AppleWebKit/605.1.15 (KHTML, like Gecko) Version/14.1.1 Mobile/15E148 Safari/604.1"
                @@ "Accept" :> "*/*"
                @@ "Accept-Language" :> "en-US,en;q=0.9"
                @@ "Accept-Encoding" :> "gzip, deflate"
                @@ "Connection" :> "keep-alive" ) ]
    IN IF req.remove_watermark
       THEN Update(opts, [ extractor_args |->
                [ tiktok |-> [ api_hostname |-> "api-h2.tiktokv.com",
                               webpage_cache |-> TRUE ] ] ])
       ELSE opts

_get_instagram_options ==
    [ http_headers |->
        ( "User-Agent" :> "Instagram 219.0.0.12.117 Android (28/9; 480dpi; 1080x2139; samsung; SM-G973F; beyond1; exynos9820; en_US; 314665256)"
          @@ "Accept" :> "*/*"
          @@ "Accept-Language" :> "en-US,en;q=0.9" ),
      sleep_interval |-> 1,
      max_sleep_interval |-> 5 ]

\* YouTube options that select the video format whatever the request.
_get_youtube_options_video_only(req) ==
    [ extractflat |-> FALSE,
      cookies_from_browser |-> <<"chrome">>,
      writeautomaticsub |-> FALSE,
      writesubtitles |-> FALSE,
      format |-> "bestvideo[ext=mp4]+bestaudio[ext=m4a]/mp4/best" ]

_get_youtube_options(req) ==
    [ extractflat |-> FALSE,
      cookies_from_browser |-> <<"chrome">>,
      writeautomaticsub |-> FALSE,
      writesubtitles |-> FALSE,
      format |-> IF req.audio_only THEN "bestaudio/best"
                 ELSE "bestvideo[ext=mp4]+bestaudio[ext=m4a]/mp4/best" ]

_build_yt_dlp_options(req, platform, download_id) ==
    LET base_options ==
          [ outtmpl |-> <<"downloads/", download_id, ".%(ext)s">>,
            format |-> _get_format_string(req, platform),
            writeinfojson |-> TRUE,
            writethumbnail |-> FALSE,
            ignoreerrors |-> FALSE,
            no_warnings |-> FALSE,
            extractflat |-> FALSE,
            socket_timeout |-> 30,
            retries |-> 3 ]
    IN IF platform = "tiktok" THEN Update(base_options, _get_tiktok_options(req))
       ELSE IF platform = "instagram" THEN Update(base_options, _get_instagram_options)
       ELSE IF platform = "youtube" THEN Update(base_options, _get_youtube_options(req))
       ELSE base_options

\* HTTPException(status_code, detail); str(e) keeps both parts.
HTTPException(code, detail) == [status_code |-> code, detail |-> detail]

TimeoutException ==
    HTTPException(408, <<"Download timeout - file is too large or connection is slow">>)

DownloadFailedException(e) == HTTPException(500, <<"Download failed: ", e>>)

NoFileException == HTTPException(500, <<"No video file was downloaded">>)

VideoExts == <<"mp4", "webm", "mkv", "avi", "mov", "flv">>
AudioExts == <<"mp3", "m4a", "wav", "ogg", "aac">>

\* First extension of the ordered list for which the file exists, or None.
FirstExisting(exts, files) ==
    IF \E i \in DOMAIN exts : exts[i] \in DOMAIN files
    THEN exts[CHOOSE i \in DOMAIN exts :
                /\ exts[i] \in DOMAIN files
                /\ \A k \in 1..(i - 1) : exts[k] \notin DOMAIN files]
    ELSE None

\* A lookup that takes any file carrying the download id.
LocateAnyFile(files) ==
    IF DOMAIN files = {} THEN None ELSE CHOOSE ext \in DOMAIN files : TRUE

\* A lookup that probes the audio extensions before the video extensions.
LocateAudioFirst(files) ==
    IF FirstExisting(AudioExts, files) # None THEN FirstExisting(AudioExts, files)
    ELSE FirstExisting(VideoExts, files)

\* downloaded_files[0] of _execute_download: video extensions first, then audio.
LocateFile(files) ==
    IF FirstExisting(VideoExts, files) # None THEN FirstExisting(VideoExts, files)
    ELSE FirstExisting(AudioExts, files)

\* The dict _execute_download returns for a located file.
ExecuteResult(j, url, info, files) ==
    LET ext == LocateFile(files) IN
    [ file_path |-> <<"downloads/", j, ".", ext>>,
      file_size |-> files[ext],
      filename  |-> <<j, ".", ext>>,
      metadata  |-> [ title       |-> Get(info, "title", "Unknown"),
                      uploader    |-> Get(info, "uploader", "Unknown"),
                      duration    |-> Get(info, "duration", 0),
                      view_count  |-> Get(info, "view_count", 0),
                      upload_date |-> Get(info, "upload_date", "Unknown"),
                      platform    |-> _detect_platform(url) ] ]

\* A preflight test that rejects every video whose size is not a number within
\* the maximum.
PreflightRejectsUnknown(size) ==
    \/ ~size.present
    \/ size.none
    \/ size.bytes = 0
    \/ size.bytes > max_file_size

\* The preflight test of download_sync: 'filesize' in info and info['filesize']
\* and info['filesize'] > self.max_file_size.
PreflightRejects(size) ==
    /\ size.present
    /\ ~size.none
    /\ size.bytes # 0
    /\ size.bytes > max_file_size

\* progress_hook(d) applied to the job's record.
progress_hook(rec, d) ==
    IF d.status = "downloading"
    THEN Update(rec, [ progress         |-> Get(d, "_percent_str", "N/A"),
                       speed            |-> Get(d, "_speed_str", "N/A"),
                       eta              |-> Get(d, "_eta_str", "N/A"),
                       downloaded_bytes |-> Get(d, "downloaded_bytes", 0),
                       total_bytes      |-> Get(d, "total_bytes", 0) ])
    ELSE IF d.status = "finished"
    THEN Update(rec, [ status  |-> "processing",
                       message |-> <<"Processing downloaded file...">> ])
    ELSE rec

\* A record that starts as 'queued' inside the gate.
StartRecordQueued(req) ==
    [ status     |-> "queued",
      start_time |-> Now,
      url        |-> req.url,
      message    |-> <<"Starting download...">> ]

\* The record download_video writes on admission.
StartRecord(req) ==
    [ status     |-> "processing",
      start_time |-> Now,
      url        |-> req.url,
      message    |-> <<"Starting download...">> ]

\* The update download_video applies after _execute_download returned.
CompletedUpdate(result) ==
    [ status   |-> "completed",
      end_time |-> Now,
      duration |-> Now,
      result   |-> result,
      message  |-> <<"Download completed successfully!">> ]

\* An except clause that records the error without the finish time.
FailedUpdateNoEndTime(e) ==
    [ status   |-> "failed",
      error    |-> e,
      message  |-> <<"Download failed: ", e>> ]

\* The update of download_video's except clause.
FailedUpdate(e) ==
    [ status   |-> "failed",
      error    |-> e,
      end_time |-> Now,
      message  |-> <<"Download failed: ", e>> ]

\* A gate that keeps the permit when the run ends with an exception.
ReleaseOnErrorSkipped(value) == value

\* Exit of `async with self.semaphore` on the exception path / the return path.
ReleaseOnError(value) == value + 1
ReleaseOnReturn(value) == value + 1

\* A status handler that answers an unknown id as a queued job.
get_download_status_default_queued(download_id) ==
    IF download_id \notin DOMAIN active_downloads
    THEN [ status_code |-> 200,
           body |-> [ download_id |-> download_id, status |-> "queued",
                      message |-> <<"Download ", "queued">> ] ]
    ELSE LET download_info == active_downloads[download_id]
             response_data ==
                 [ download_id |-> download_id,
                   status      |-> download_info.status,
                   message     |-> Get(download_info, "message",
                                       <<"Download ", download_info.status>>),
                   progress    |-> Get(download_info, "progress", None),
                   speed       |-> Get(download_info, "speed", None),
                   eta         |-> Get(download_info, "eta", None) ]
         IN [ status_code |-> 200,
              body |-> IF download_info.status = "completed"
                       THEN Update(response_data,
                                [ file_url  |-> <<"/api/download/", download_id, "/file">>,
                                  file_size |-> download_info.result.file_size,
                                  duration  |-> Get(download_info, "duration", None),
                                  metadata  |-> download_info.result.metadata ])
                       ELSE response_data ]

\* GET /api/download/{download_id}/status.
get_download_status(download_id) ==
    IF download_id \notin DOMAIN active_downloads
    THEN [status_code |-> 404, body |-> [detail |-> <<"Download not found">>]]
    ELSE LET download_info == active_downloads[download_id]
             response_data ==
                 [ download_id |-> download_id,
                   status      |-> download_info.status,
                   message     |-> Get(download_info, "message",
                                       <<"Download ", download_info.status>>),
                   progress    |-> Get(download_info, "progress", None),
                   speed       |-> Get(download_info, "speed", None),
                   eta         |-> Get(download_info, "eta", None) ]
         IN [ status_code |-> 200,
              body |-> IF download_info.status = "completed"
                       THEN Update(response_data,
                                [ file_url  |-> <<"/api/download/", download_id, "/file">>,
                                  file_size |-> download_info.result.file_size,
                                  duration  |-> Get(download_info, "duration", None),
                                  metadata  |-> download_info.result.metadata ])
                       ELSE response_data ]

\* file_path.exists() for a path downloads/{id}.{ext}.
PathExists(path) == path[4] \in DOMAIN disk[path[2]]

\* A file handler without the file_path.exists() test.
download_file_unchecked(download_id) ==
    IF download_id \notin DOMAIN active_downloads
    THEN [status_code |-> 404, body |-> [detail |-> <<"Download not found">>]]
    ELSE IF active_downloads[download_id].status # "completed"
    THEN [status_code |-> 400, body |-> [detail |-> <<"Download not completed">>]]
    ELSE [ status_code |-> 200,
           body |-> [ path |-> active_downloads[download_id].result.file_path ] ]

\* GET /api/download/{download_id}/file.
download_file(download_id) ==
    IF download_id \notin DOMAIN active_downloads
    THEN [status_code |-> 404, body |-> [detail |-> <<"Download not found">>]]
    ELSE LET download_info == active_downloads[download_id] IN
         IF download_info.status # "completed"
         THEN [status_code |-> 400, body |-> [detail |-> <<"Download not completed">>]]
         ELSE LET file_path == download_info.result.file_path
                  metadata == download_info.result.metadata
                  clean_filename == <<Get(metadata, "title", "video"), ".", file_path[4]>>
              IN IF ~PathExists(file_path)
                 THEN [status_code |-> 404, body |-> [detail |-> <<"File not found">>]]
                 ELSE [ status_code |-> 200,
                        body |-> [ path       |-> file_path,
                                   filename   |-> clean_filename,
                                   media_type |-> "application/octet-stream" ] ]

\* GET /api/health.
health_check ==
    [ status_code |-> 200,
      body |-> [ status  |-> "healthy",
                 service |-> "Multi-Platform Video Downloader",
                 version |-> "1.0.0",
                 active_downloads |-> Cardinality(DOMAIN active_downloads) ] ]

\* Worker threads of the pool that are executing download_sync.
Running == { j \in Jobs : thread[j] \in {"inspect", "check", "download"} }

Submitted == { j \in Jobs : task[j] # "none" }

SetRecord(j, rec) ==
    active_downloads' = [k \in (DOMAIN active_downloads) \cup {j} |->
                            IF k = j THEN rec ELSE active_downloads[k]]

\* ---------------------------------------------------------------- Init
Init ==
    /\ active_downloads = EmptyDict
    /\ semaphore = GateCapacity
    /\ task = [j \in Jobs |-> "none"]
    /\ request = [j \in Jobs |-> NoRequest]
    /\ thread = [j \in Jobs |-> "none"]
    /\ outcome = [j \in Jobs |-> NoOutcome]
    /\ preflight = [j \in Jobs |-> {}]
    /\ download_calls = [j \in Jobs |-> 0]
    /\ disk = [j \in Jobs |-> EmptyDict]
    /\ max_workers \in PoolSizes
    /\ options = [j \in Jobs |-> EmptyDict]
    /\ response = NoResponse

\* -------------------------------------------------------------- actions
\* POST /api/download: a fresh uuid4, the background task added, the response
\* returned.  No record is written here.
Submit(req) ==
    /\ \E j \in Jobs : task[j] = "none"
    /\ LET j == CHOOSE k \in Jobs : task[k] = "none" /\ \A m \in 1..(k - 1) : task[m] # "none"
       IN /\ task' = [task EXCEPT ![j] = "scheduled"]
          /\ request' = [request EXCEPT ![j] = req]
          /\ response' = Respond("download", j, 200,
                                  [ download_id |-> j, status |-> "queued",
                                    message |-> <<"Download started successfully">> ])
    /\ UNCHANGED <<active_downloads, semaphore, thread, outcome, preflight,
                   download_calls, disk, max_workers, options>>

\* VideoDownloader.download_video up to the await of the worker: the permit is
\* acquired, the record written, download_sync handed to the pool.
Admit(j) ==
    /\ task[j] = "scheduled"
    /\ semaphore > 0
    /\ semaphore' = semaphore - 1
    /\ SetRecord(j, StartRecord(request[j]))
    /\ task' = [task EXCEPT ![j] = "awaiting"]
    /\ thread' = [thread EXCEPT ![j] = "pending"]
    /\ options' = [options EXCEPT ![j] =
          Update(_build_yt_dlp_options(request[j], _detect_platform(request[j].url), j),
                 [progress_hooks |-> <<j>>])]
    /\ response' = NoResponse
    /\ UNCHANGED <<request, outcome, preflight, download_calls, disk, max_workers>>

\* A free worker of the pool takes the queued download_sync.
ThreadStart(j) ==
    /\ thread[j] = "pending"
    /\ Cardinality(Running) < max_workers
    /\ thread' = [thread EXCEPT ![j] = "inspect"]
    /\ response' = NoResponse
    /\ UNCHANGED <<active_downloads, semaphore, task, request, outcome, preflight,
                   download_calls, disk, max_workers, options>>

\* extract_info(url, download=False) returns the info dict or raises.
Inspect(j) ==
    /\ thread[j] = "inspect"
    /\ \/ /\ thread' = [thread EXCEPT ![j] = "raised"]
          /\ outcome' = [outcome EXCEPT ![j] = Raised(ExtractorError)]
          /\ UNCHANGED preflight
       \/ \E size \in PreflightSizes :
            /\ thread' = [thread EXCEPT ![j] = "check"]
            /\ preflight' = [preflight EXCEPT ![j] = {size}]
            /\ UNCHANGED outcome
    /\ response' = NoResponse
    /\ UNCHANGED <<active_downloads, semaphore, task, request, download_calls, disk,
                   max_workers, options>>

\* The size test of download_sync: ValueError, or extract_info(url,
\* download=True) is entered (the preflight info is not read again).
SizeCheck(j) ==
    /\ thread[j] = "check"
    /\ \E size \in preflight[j] :
         IF PreflightRejects(size)
         THEN /\ thread' = [thread EXCEPT ![j] = "raised"]
              /\ outcome' = [outcome EXCEPT ![j] = Raised(SizeError)]
              /\ UNCHANGED download_calls
         ELSE /\ thread' = [thread EXCEPT ![j] = "download"]
              /\ download_calls' = [download_calls EXCEPT ![j] = @ + 1]
              /\ UNCHANGED outcome
    /\ preflight' = [preflight EXCEPT ![j] = {}]
    /\ response' = NoResponse
    /\ UNCHANGED <<active_downloads, semaphore, task, request, disk, max_workers, options>>

\* yt-dlp calls the progress hook from the worker thread during the download.
ProgressHook(j, d) ==
    /\ thread[j] = "download"
    /\ active_downloads' = [active_downloads EXCEPT ![j] = progress_hook(@, d)]
    /\ response' = NoResponse
    /\ UNCHANGED <<semaphore, task, request, thread, outcome, preflight,
                   download_calls, disk, max_workers, options>>

\* extract_info(url, download=True) returns the info dict, the files written.
DownloadReturn(j, info, files) ==
    /\ thread[j] = "download"
    /\ thread' = [thread EXCEPT ![j] = "returned"]
    /\ outcome' = [outcome EXCEPT ![j] = Returned(info)]
    /\ disk' = [disk EXCEPT ![j] = files]
    /\ response' = NoResponse
    /\ UNCHANGED <<active_downloads, semaphore, task, request, preflight,
                   download_calls, max_workers, options>>

\* extract_info(url, download=True) raises.
DownloadRaise(j) ==
    /\ thread[j] = "download"
    /\ thread' = [thread EXCEPT ![j] = "raised"]
    /\ outcome' = [outcome EXCEPT ![j] = Raised(ExtractorError)]
    /\ response' = NoResponse
    /\ UNCHANGED <<active_downloads, semaphore, task, request, preflight,
                   download_calls, disk, max_workers, options>>

\* A failed run that is put back in front of the gate.
TaskRequeued == "scheduled"

\* `raise e` of the except clause leaves download_video: the background task
\* is over, nothing schedules it again.
TaskAfterRaise == "done"

\* The except clause of download_video, then the exit of the async with.
download_video_except(j, e) ==
    /\ active_downloads' = [active_downloads EXCEPT ![j] = Update(@, FailedUpdate(e))]
    /\ semaphore' = ReleaseOnError(semaphore)
    /\ task' = [task EXCEPT ![j] = TaskAfterRaise]
    /\ response' = NoResponse

\* asyncio.wait_for expires before the worker delivered: a queued work item is
\* cancelled, a running download_sync keeps running on its thread.
Timeout(j) ==
    /\ task[j] = "awaiting"
    /\ thread[j] \in {"pending", "inspect", "check", "download"}
    /\ thread' = [thread EXCEPT ![j] = IF @ = "pending" THEN "cancelled" ELSE @]
    /\ download_video_except(j, TimeoutException)
    /\ UNCHANGED <<request, outcome, preflight, download_calls, disk, max_workers, options>>

\* The awaited download_sync raised: HTTPException 500 "Download failed: ...".
Fail(j) ==
    /\ task[j] = "awaiting"
    /\ thread[j] = "raised"
    /\ download_video_except(j, DownloadFailedException(outcome[j].exc))
    /\ UNCHANGED <<request, thread, outcome, preflight, download_calls, disk, max_workers, options>>

\* The awaited download_sync returned: the file is located and the record
\* finalized, or no file exists and the except clause runs.
Finish(j) ==
    /\ task[j] = "awaiting"
    /\ thread[j] = "returned"
    /\ IF LocateFile(disk[j]) = None
       THEN download_video_except(j, NoFileException)
       ELSE /\ active_downloads' = [active_downloads EXCEPT ![j] =
                    Update(@, CompletedUpdate(
                        ExecuteResult(j, request[j].url, outcome[j].info, disk[j])))]
            /\ semaphore' = ReleaseOnReturn(semaphore)
            /\ task' = [task EXCEPT ![j] = "done"]
            /\ response' = NoResponse
    /\ UNCHANGED <<request, thread, outcome, preflight, download_calls, disk, max_workers, options>>

Next ==
    \/ \E req \in Requests : Submit(req)
    \/ \E j \in Jobs : Admit(j)
    \/ \E j \in Jobs : ThreadStart(j)
    \/ \E j \in Jobs : Inspect(j)
    \/ \E j \in Jobs : SizeCheck(j)
    \/ \E j \in Jobs, d \in ProgressEvents : ProgressHook(j, d)
    \/ \E j \in Jobs, info \in Infos, files \in DiskStates : DownloadReturn(j, info, files)
    \/ \E j \in Jobs : DownloadRaise(j)
    \/ \E j \in Jobs : Timeout(j)
    \/ \E j \in Jobs : Fail(j)
    \/ \E j \in Jobs : Finish(j)

Spec == Init /\ [][Next]_vars

\* ------------------------------------------------------- query endpoints
QueryUnchanged ==
    UNCHANGED <<active_downloads, semaphore, task, request, thread, outcome, preflight,
                download_calls, disk, max_workers, options>>

GetStatus(id) ==
    /\ response' = Respond("status", id, get_download_status(id).status_code,
                           get_download_status(id).body)
    /\ QueryUnchanged

DownloadFile(id) ==
    /\ response' = Respond("file", id, download_file(id).status_code, download_file(id).body)
    /\ QueryUnchanged

HealthCheck ==
    /\ response' = Respond("health", 0, health_check.status_code, health_check.body)
    /\ QueryUnchanged

\* The files of a finished job are removed from downloads/ from outside.
ExternalCleanup(j) ==
    /\ task[j] = "done"
    /\ DOMAIN disk[j] # {}
    /\ disk' = [disk EXCEPT ![j] = EmptyDict]
    /\ response' = NoResponse
    /\ UNCHANGED <<active_downloads, semaphore, task, request, thread, outcome, preflight,
                   download_calls, max_workers, options>>

\* The orchestrator with the query endpoints; the last download id is never
\* handed out, so that queries for an id never submitted occur at any time.
NextApi ==
    \/ Next /\ task'[MaxJobs] = "none"
    \/ \E id \in Jobs : GetStatus(id)
    \/ \E id \in Jobs : DownloadFile(id)
    \/ HealthCheck
    \/ \E j \in Jobs : ExternalCleanup(j)

SpecApi == Init /\ [][NextApi]_vars

\* Option building alone: one request of any platform, tier and flags is
\* submitted and admitted.
NextFormats ==
    /\ \/ \E req \in FormatRequests : Submit(req)
       \/ \E j \in Jobs : Admit(j)
    /\ \A j \in Jobs \ {1} : task'[j] = "none"

SpecFormats == Init /\ [][NextFormats]_vars

\* The scheduling the event loop gives: a waiting task is admitted when permits
\* keep coming back (asyncio.Semaphore wakes its waiters in turn), and an
\* awaiting task is resumed by the worker's result or by the timeout of
\* wait_for.  Nothing obliges an extractor call to return.
Fairness ==
    \A j \in Jobs :
        /\ SF_vars(Admit(j))
        /\ WF_vars(Timeout(j) \/ Fail(j) \/ Finish(j))

FairSpec == Spec /\ Fairness

\* ------------------------------------------------------------ properties
Records == DOMAIN active_downloads

StatusRank(s) ==
    IF s = "queued" THEN 0 ELSE IF s = "processing" THEN 1 ELSE 2

\* What the code itself fixes of a recorded error: the HTTP status and the
\* literal the detail starts with (the rest is the passed-through message).
ErrorClass(e) == <<e.status_code, e.detail[1]>>

TimedOut(j) ==
    /\ j \in Records
    /\ "error" \in DOMAIN active_downloads[j]
    /\ active_downloads[j].error.status_code = 408

Processing == { j \in Records : active_downloads[j].status = "processing" }

Awaiting == { j \in Jobs : task[j] = "awaiting" }

\* C1: the number of records whose status is 'processing' never exceeds the
\* gate capacity.
C1_ProcessingWithinCapacity == Cardinality(Processing) <= GateCapacity

\* C2: once a record has been marked failed by the timeout, no later step (a
\* progress callback of the abandoned extractor call) changes any of its fields.
C2_NoMutationAfterTimeout ==
    [][\A j \in Jobs :
          (TimedOut(j) /\ active_downloads[j].status = "failed")
              => active_downloads'[j] = active_downloads[j]]_vars

\* C3: the status of a record never moves to an earlier state of the order
\* queued < processing < {completed, failed}; a terminal status is kept.
C3_StatusMonotonic ==
    [][\A j \in Records :
          /\ StatusRank(active_downloads'[j].status) >= StatusRank(active_downloads[j].status)
          /\ active_downloads[j].status \in {"completed", "failed"}
                => active_downloads'[j].status = active_downloads[j].status]_vars

\* C4: a job cut off by the timeout is failed with the timeout error and stays
\* so in every later state, its task over and its permit back in the gate.
C4_TimedOutStaysFailed ==
    \A j \in Jobs :
        TimedOut(j) =>
            /\ active_downloads[j].status = "failed"
            /\ ErrorClass(active_downloads[j].error) = ErrorClass(TimeoutException)
            /\ task[j] = "done"
            /\ semaphore = GateCapacity - Cardinality(Awaiting)

\* C5: never more than N extractor invocations are executing on the worker
\* pool, abandoned ones of timed-out jobs included.
C5_InvocationsWithinCapacity == Cardinality(Running) <= GateCapacity

\* C6: every permit taken is given back whatever the outcome of the run: the
\* free permits are the capacity less the jobs between admission and the end
\* of their run, so with no such job the gate is at full capacity.
C6_PermitsConserved ==
    /\ semaphore = GateCapacity - Cardinality(Awaiting)
    /\ Awaiting = {} => semaphore = GateCapacity

\* Two runs have ended, one by the timeout and one by another outcome, and
\* the gate is back at full capacity.
C6_Witness ==
    /\ semaphore = GateCapacity
    /\ \E j, k \in Jobs :
         /\ j # k
         /\ task[j] = "done" /\ task[k] = "done"
         /\ TimedOut(j)
         /\ ~TimedOut(k)

\* C7: for every id that submit has returned, getStatus answers with the record
\* (never 404), and with status 'queued' as long as the job is not admitted.
C7_SubmittedIsQueryable ==
    \A j \in Submitted :
        /\ get_download_status(j).status_code = 200
        /\ (task[j] = "scheduled") => (get_download_status(j).body.status = "queued")

\* C8: a completed record has a result and no error, a failed record an error
\* and no result, a queued or processing record neither.
C8_ResultErrorExclusive ==
    \A j \in Records :
        LET rec == active_downloads[j]
            hasResult == "result" \in DOMAIN rec
            hasError == "error" \in DOMAIN rec
        IN /\ rec.status = "completed" => (hasResult /\ ~hasError)
           /\ rec.status = "failed" => (hasError /\ ~hasResult)
           /\ rec.status \in {"queued", "processing"} => (~hasResult /\ ~hasError)

\* C9: a job rejected by the preflight size test never enters the download
\* call, and the run ends failed with an error classified apart from an
\* ordinary extractor error.
C9_SizeExceededDistinct ==
    \A j \in Jobs :
        (outcome[j].exc = SizeError) =>
            /\ download_calls[j] = 0
            /\ (task[j] = "done") =>
                 (/\ active_downloads[j].status = "failed"
                  /\ ErrorClass(active_downloads[j].error)
                        # ErrorClass(DownloadFailedException(ExtractorError)))

\* C10: the file size in the result of a completed record is at most the
\* maximum file size.
C10_CompletedWithinMaxSize ==
    \A j \in Records :
        active_downloads[j].status = "completed"
            => active_downloads[j].result.file_size <= max_file_size

\* C11: under a fair gate and with every run ended by its result or by the
\* timeout, every submitted job comes to a terminal status and keeps it.
C11_EventuallyTerminalForGood ==
    \A j \in Jobs :
        (task[j] # "none")
            ~> [](j \in Records /\ active_downloads[j].status \in {"completed", "failed"})

\* The run of job j was ended by what download_sync delivered, not by the timeout.
EndedByWorker(j) == task[j] = "done" /\ ~TimedOut(j)

\* C12: a job whose extractor call raised (no timeout) is failed, its error the
\* 500 "Download failed: " exception carrying the extractor's message, with a
\* finish time and no result; it is never completed.
C12_ExtractorErrorFails ==
    \A j \in Jobs :
        (EndedByWorker(j) /\ outcome[j].exc = ExtractorError) =>
            LET rec == active_downloads[j] IN
            /\ rec.status = "failed"
            /\ rec.error.status_code = 500
            /\ rec.error.detail = <<"Download failed: ", ExtractorError>>
            /\ "end_time" \in DOMAIN rec
            /\ "result" \notin DOMAIN rec

\* A run ended by an error the download call raised after progress was reported.
C12_Witness ==
    \E j \in Jobs :
        /\ EndedByWorker(j)
        /\ outcome[j].exc = ExtractorError
        /\ download_calls[j] = 1
        /\ "progress" \in DOMAIN active_downloads[j]

\* C13: when the download returned and none of the video or audio extensions
\* exists for the job, the job is failed with the 500 "No video file was
\* downloaded" error, is never completed, and the download ran exactly once.
C13_NoArtifactFails ==
    \A j \in Jobs :
        (/\ EndedByWorker(j)
         /\ thread[j] = "returned"
         /\ \A i \in DOMAIN VideoExts : VideoExts[i] \notin DOMAIN disk[j]
         /\ \A i \in DOMAIN AudioExts : AudioExts[i] \notin DOMAIN disk[j]) =>
            LET rec == active_downloads[j] IN
            /\ rec.status = "failed"
            /\ rec.error.status_code = 500
            /\ rec.error.detail = <<"No video file was downloaded">>
            /\ "result" \notin DOMAIN rec
            /\ download_calls[j] = 1

\* The download returned and left only a file of another extension.
C13_Witness ==
    \E j \in Jobs :
        /\ EndedByWorker(j)
        /\ thread[j] = "returned"
        /\ DOMAIN disk[j] = {"json"}
        /\ active_downloads[j].status = "failed"

\* C14: the file endpoint answers 200 with the stored file exactly when the
\* record exists, is completed and its file is on disk, an error otherwise,
\* and never changes the job table.
C14_FetchArtifact ==
    [][response'.endpoint = "file" =>
          LET id == response'.download_id
              servable ==
                  /\ id \in Records
                  /\ active_downloads[id].status = "completed"
                  /\ active_downloads[id].result.file_path[4] \in DOMAIN disk[id]
          IN /\ active_downloads' = active_downloads
             /\ (response'.status_code = 200) <=> servable
             /\ servable => response'.body.path = active_downloads[id].result.file_path
             /\ ~servable => response'.status_code \in {400, 404}]_vars

\* The file of a completed job was asked for after it had been removed.
C14_Witness ==
    /\ response.endpoint = "file"
    /\ response.status_code = 404
    /\ response.download_id \in Records
    /\ active_downloads[response.download_id].status = "completed"

\* C15: the status endpoint answers 404 for an id that was never submitted and
\* leaves the job table as it is.
C15_UnknownIdNotFound ==
    [][(response'.endpoint = "status" /\ response'.download_id \notin Submitted) =>
          /\ response'.status_code = 404
          /\ active_downloads' = active_downloads]_vars

\* An id never submitted was asked for while another job has a record.
C15_Witness ==
    /\ response.endpoint = "status"
    /\ response.download_id \notin Submitted
    /\ response.status_code = 404
    /\ Records # {}

\* C16: a record that has reached 'failed' or 'completed' is answered by every
\* later status query, a failed one with status 'failed' and its error message.
C16_TerminalStaysQueryable ==
    \A j \in Records :
        LET rec == active_downloads[j]
            answer == get_download_status(j)
        IN /\ ("error" \in DOMAIN rec \/ "result" \in DOMAIN rec) => answer.status_code = 200
           /\ "error" \in DOMAIN rec =>
                 /\ answer.body.status = "failed"
                 /\ answer.body.message = <<"Download failed: ", rec.error>>

\* C19: the job count of the health endpoint is the number of jobs submitted
\* so far, those not yet admitted included.
C19_HealthCountsSubmitted ==
    response.endpoint = "health" => response.body.active_downloads = Cardinality(Submitted)

Admitted == { j \in Jobs : task[j] \in {"awaiting", "done"} }

\* C17: for an audio-only request the format handed to the extractor, after
\* the platform options are merged in, is 'bestaudio/best' on every platform,
\* tier and watermark flag.
C17_AudioOnlyBestAudio ==
    \A j \in Admitted :
        request[j].audio_only => options[j].format = "bestaudio/best"

\* An audio-only YouTube request with a height-capped tier has been admitted.
C17_Witness ==
    \E j \in Admitted :
        /\ request[j].audio_only
        /\ Contains(request[j].url, "youtube.com")
        /\ request[j].quality = "720p"
        /\ options[j].format = "bestaudio/best"

\* C18: for a request that is not audio-only, on a platform other than
\* tiktok, the format handed to the extractor is the table entry of the
\* requested tier, and the unconstrained best format for a tier not in it.
C18_QualityTierFormat ==
    \A j \in Admitted :
        (~request[j].audio_only /\ ~Contains(request[j].url, "tiktok.com")) =>
            options[j].format =
                IF request[j].quality \in DOMAIN quality_map
                THEN quality_map[request[j].quality]
                ELSE "bestvideo+bestaudio/best"

IsTerminal(s) == s \in {"completed", "failed"}

\* C20: every step that writes 'completed' or 'failed' into a record starts
\* from a state where that record is 'processing' and its job holds a permit.
C20_TerminalOnlyFromProcessing ==
    [][\A j \in Jobs :
          (/\ j \in DOMAIN active_downloads'
           /\ IsTerminal(active_downloads'[j].status)
           /\ (j \notin Records \/ active_downloads'[j].status # active_downloads[j].status))
              => /\ j \in Records
                 /\ active_downloads[j].status = "processing"
                 /\ task[j] = "awaiting"
                 /\ semaphore < GateCapacity]_vars

\* One job has been completed and another failed.
C20_Witness ==
    \E j, k \in Records :
        /\ active_downloads[j].status = "completed"
        /\ active_downloads[k].status = "failed"

\* The execution contexts that can still write job j's record: the worker
\* thread while extract_info(download=True) runs (it calls progress_hook), and
\* the orchestrator task once the awaited call has delivered and the task is
\* to be resumed.
WorkerWriter(j) == thread[j] = "download"

OrchestratorWriter(j) == task[j] = "awaiting" /\ thread[j] \in {"returned", "raised"}

\* C21: no record has two writers at once: the orchestrator task and the
\* worker's progress callback are never both about to write it, and once the
\* orchestrator has finalized the record no worker that writes it is active.
C21_SingleWriter ==
    \A j \in Jobs :
        /\ ~(OrchestratorWriter(j) /\ WorkerWriter(j))
        /\ (task[j] = "done") => ~WorkerWriter(j)

TaskRank(t) ==
    IF t = "none" THEN 0 ELSE IF t = "scheduled" THEN 1 ELSE IF t = "awaiting" THEN 2 ELSE 3

\* C22: no retries: a job's background task only moves forward through
\* scheduled, awaiting, done (one run, one admission), its download_sync is
\* handed to the pool once, the extractor is called in download mode at most
\* once, and a job whose run has ended stays ended.
C22_NoRetries ==
    [][\A j \in Jobs :
          /\ TaskRank(task'[j]) >= TaskRank(task[j])
          /\ (task[j] = "done") => (task'[j] = "done")
          /\ (thread'[j] = "pending") => (thread[j] \in {"none", "pending"})
          /\ download_calls'[j] <= 1]_vars

\* A job has failed after its one download call, its permit is back, and
\* another job has been admitted since while the failed one stays ended.
C22_Witness ==
    \E j, k \in Jobs :
        /\ j # k
        /\ task[j] = "done"
        /\ active_downloads[j].status = "failed"
        /\ download_calls[j] = 1
        /\ task[k] = "awaiting"

\* ------------------------------------------------- artifact specification
\* Every set of files download_sync can leave under the job's id: any of the
\* probed extensions and the info json.
ArtifactExts ==
    { VideoExts[i] : i \in DOMAIN VideoExts } \cup { AudioExts[i] : i \in DOMAIN AudioExts }
        \cup {"json"}

ArtifactDiskStates == { [x \in E |-> max_file_size] : E \in SUBSET ArtifactExts }

\* Info dicts of extract_info(download=True): a title, an empty title, no title.
ArtifactInfos ==
    { [title |-> "Clip", uploader |-> "u"],
      [title |-> "", uploader |-> "u"],
      [uploader |-> "u"] }

\* One job run to its result over every file set and info dict, then its file
\* asked for.
NextArtifact ==
    /\ \/ \E req \in Requests : Submit(req)
       \/ \E j \in Jobs : Admit(j)
       \/ \E j \in Jobs : ThreadStart(j)
       \/ \E j \in Jobs : Inspect(j)
       \/ \E j \in Jobs : SizeCheck(j)
       \/ \E j \in Jobs :
              /\ thread[j] = "download"
              /\ \E info \in ArtifactInfos, files \in ArtifactDiskStates :
                     DownloadReturn(j, info, files)
       \/ \E j \in Jobs : Fail(j)
       \/ \E j \in Jobs : Finish(j)
       \/ \E id \in Jobs : DownloadFile(id)
    /\ \A j \in Jobs \ {1} : task'[j] = "none"

SpecArtifact == Init /\ [][NextArtifact]_vars

\* C23: for every set of files present under the job's id, the located file
\* is the first existing one of mp4, webm, mkv, avi, mov, flv; with none of
\* these, the first existing one of mp3, m4a, wav, ogg, aac; the job fails
\* with "No video file was downloaded" exactly when none of the eleven exists.
C23_ArtifactLocation ==
    \A j \in Jobs :
        (EndedByWorker(j) /\ thread[j] = "returned") =>
            LET present == DOMAIN disk[j]
                video == <<"mp4", "webm", "mkv", "avi", "mov", "flv">>
                audio == <<"mp3", "m4a", "wav", "ogg", "aac">>
                V == { i \in DOMAIN video : video[i] \in present }
                A == { i \in DOMAIN audio : audio[i] \in present }
                Least(I) == CHOOSE i \in I : \A k \in I : i <= k
                rec == active_downloads[j]
                Located(ext) ==
                    /\ rec.status = "completed"
                    /\ rec.result.file_path = <<"downloads/", j, ".", ext>>
                    /\ rec.result.filename = <<j, ".", ext>>
            IN IF V # {} THEN Located(video[Least(V)])
               ELSE IF A # {} THEN Located(audio[Least(A)])
               ELSE /\ rec.status = "failed"
                    /\ rec.error = NoFileException
                    /\ "result" \notin DOMAIN rec

\* A job left video files without the first of the list, and audio files: the
\* earliest video extension present was taken.
C23_Witness ==
    \E j \in Jobs :
        /\ EndedByWorker(j)
        /\ DOMAIN disk[j] = {"mkv", "webm", "m4a", "mp3", "json"}
        /\ active_downloads[j].status = "completed"
        /\ active_downloads[j].result.file_path[4] = "webm"

\* C24: the file name served for a completed job is the extractor's title,
\* a dot and the stored file's extension; a fallback literal stands for the
\* title when the extractor gave none or an empty one.
C24_UserFilename ==
    (response.endpoint = "file" /\ response.status_code = 200) =>
        LET j == response.download_id
            info == outcome[j].info
            ext == active_downloads[j].result.file_path[4]
            name == response.body.filename
        IN /\ name[2] = "." /\ name[3] = ext
           /\ IF "title" \in DOMAIN info /\ info.title # ""
              THEN name[1] = info.title
              ELSE name[1] \in {"Unknown", "video"}

NoSizes == {FilesizeAbsent, FilesizeNone, Filesize(0)}

\* The orchestrator where every preflight inspect reports no size.
NextNoSize ==
    /\ Next
    /\ \A j \in Jobs : preflight'[j] \subseteq NoSizes
    /\ task'[MaxJobs] = "none"

SpecNoSize == Init /\ [][NextNoSize]_vars

\* C26: when the preflight reports no size, the size test raises nothing and
\* the download call is entered, once; a run not cut off by the timeout is
\* completed exactly when the download returned and left a media file, and is
\* failed with the extractor's error or the missing-file error otherwise,
\* never with the size error.
C26_NoSizeNotRejected ==
    [][\A j \in Jobs :
          /\ (thread[j] = "check" /\ thread'[j] # "check") =>
                /\ thread'[j] = "download"
                /\ download_calls'[j] = download_calls[j] + 1
                /\ outcome'[j] = NoOutcome
          /\ outcome'[j].exc # SizeError
          /\ EndedByWorker(j)' =>
                LET rec == active_downloads'[j]
                    media == {"mp4", "webm", "mkv", "avi", "mov", "flv",
                              "mp3", "m4a", "wav", "ogg", "aac"}
                IN IF thread'[j] = "raised"
                   THEN /\ rec.status = "failed"
                        /\ rec.error = DownloadFailedException(ExtractorError)
                   ELSE IF media \cap DOMAIN disk'[j] = {}
                   THEN /\ rec.status = "failed"
                        /\ rec.error = NoFileException
                   ELSE /\ rec.status = "completed"
                        /\ download_calls'[j] = 1]_vars

\* A job whose preflight reported no size has been downloaded and completed.
C26_Witness ==
    \E j \in Jobs :
        /\ EndedByWorker(j)
        /\ download_calls[j] = 1
        /\ active_downloads[j].status = "completed"

====
